---- MODULE Spec2Model ----
(***************************************************************************)
(* Model of the agentchain-sdk payment / cache subsystem:                  *)
(*   - Cache (utils/cache): a Map in insertion order, per-entry TTL,       *)
(*     capacity eviction, a cleanup timer and getOrSet;                    *)
(*   - PaymentProcessor: processPayment, getPayment, verifyPayment and the *)
(*     confirmation poller monitorPaymentConfirmation, interleaved at the  *)
(*     awaits on the wallet transfer and on the status oracle, and         *)
(*     listPayments;                                                       *)
(*   - AgentChainSDK: the configuration object, getConfig, updateConfig.   *)
(* Optional values (T | null | undefined) are sequences of length 0 or 1.  *)
(***************************************************************************)
EXTENDS Integers, Sequences, FiniteSets, TLC

VARIABLES
  cache,          \* Cache.store: sequence of [key, entry] in Map insertion order
  cacheConfig,    \* Cache.config: [maxSize, defaultTTL]
  cleanupTimer,   \* Cache.cleanupTimer is set
  fetches,        \* getOrSet calls suspended at "await fetcher()"
  now,            \* Date.now()
  payments,       \* PaymentProcessor.payments: sequence of Payment in Map insertion order
  wallet,         \* WalletService.connectedWallet?.connected
  sending,        \* the processPayment call suspended at "await sendSOL(...)"
  verifying,      \* caller verifyPayment calls suspended at "await getSignatureStatus"
  pollers,        \* per payment, in creation order: its checkConfirmation closure
  sdk,            \* AgentChainSDK: config, _walletService, the logger level, objects handed out
  mgr,            \* AgentManager: the agents map and its calls suspended at an await
  last            \* the call completed (or suspended) by the latest step, with its result

vars == <<cache, cacheConfig, cleanupTimer, fetches, now, payments, wallet,
          sending, verifying, pollers, sdk, mgr, last>>

cacheVars == <<cache, cacheConfig, cleanupTimer, fetches>>
payVars == <<payments, wallet, sending, verifying, pollers>>

----------------------------------------------------------------------------
(* Bounds of the model *)

MaxCap == 2          \* largest configured maxSize
DefaultTTL == 1      \* configured defaultTTL, in clock ticks
MaxTTL == 2          \* largest ttl passed to set, in clock ticks
MaxTime == 3         \* number of clock ticks
MaxFetch == 1        \* getOrSet calls in flight at once

CacheKeys == {"", "a", "b"}
ExpiryKeys == {"", "a"}
CacheData == {"v1", "v2"}
TTLArgs == {<<>>} \cup {<<t>> : t \in 0..MaxTTL}
FetchSlots == 1..MaxFetch

Absent == <<>>
Some(v) == <<v>>

----------------------------------------------------------------------------
(* Cache: the JavaScript Map holding the entries *)

StoreKeys(store) == {store[i].key : i \in 1..Len(store)}

StoreHas(store, key) == \E i \in 1..Len(store) : store[i].key = key

StoreGet(store, key) ==
  store[CHOOSE i \in 1..Len(store) : store[i].key = key].entry

\* Map.delete: the remaining keys keep their order
StoreDelete(store, key) == SelectSeq(store, LAMBDA e : e.key # key)

\* Map.set: an existing key keeps its position, a new key goes last
StoreSet(store, key, entry) ==
  IF StoreHas(store, key)
  THEN [i \in 1..Len(store) |->
          IF store[i].key = key THEN [key |-> key, entry |-> entry] ELSE store[i]]
  ELSE Append(store, [key |-> key, entry |-> entry])

\* store.keys().next().value: the first key in insertion order, or undefined
OldestKey(store) == IF Len(store) > 0 THEN Some(store[1].key) ELSE Absent

\* JavaScript truthiness of "oldestKey": undefined and "" are falsy
Truthy(optKey) == optKey # Absent /\ optKey[1] # ""

\* "ttl || this.config.defaultTTL": an omitted ttl and ttl 0 give the default
EntryTTL(ttlArg, cfg) ==
  IF ttlArg # Absent /\ ttlArg[1] # 0 THEN ttlArg[1] ELSE cfg.defaultTTL

\* Expired with a fault: an entry counts as expired once its age reaches the ttl
ExpiredAtTTL(entry, t) == t - entry.timestamp >= entry.ttl

\* "now - entry.timestamp > entry.ttl"
Expired(entry, t) == t - entry.timestamp > entry.ttl

\* Cache.set
CacheSet(store, cfg, key, data, ttlArg, t) ==
  LET entry == [data |-> data, timestamp |-> t, ttl |-> EntryTTL(ttlArg, cfg)]
      oldestKey == OldestKey(store)
      trimmed == IF Len(store) >= cfg.maxSize /\ Truthy(oldestKey)
                 THEN StoreDelete(store, oldestKey[1])
                 ELSE store
  IN  StoreSet(trimmed, key, entry)

\* Cache.get: the value returned (Absent for null)
CacheGetResult(store, key, t) ==
  IF ~StoreHas(store, key) THEN Absent
  ELSE IF Expired(StoreGet(store, key), t) THEN Absent
  ELSE Some(StoreGet(store, key).data)

\* Cache.get and Cache.has: the store afterwards (an expired entry is deleted)
CacheGetStore(store, key, t) ==
  IF StoreHas(store, key) /\ Expired(StoreGet(store, key), t)
  THEN StoreDelete(store, key)
  ELSE store

\* Cache.has: the value returned
CacheHasResult(store, key, t) ==
  StoreHas(store, key) /\ ~Expired(StoreGet(store, key), t)

\* CacheCleanup with a fault: an entry is swept once its age reaches the ttl
CacheCleanupAtTTL(store, t) == SelectSeq(store, LAMBDA e : ~ExpiredAtTTL(e.entry, t))

\* Cache.cleanup: delete every expired entry
CacheCleanup(store, t) == SelectSeq(store, LAMBDA e : ~Expired(e.entry, t))

----------------------------------------------------------------------------
(* Cache operations as steps *)

Set(key, data, ttlArg) ==
  /\ cache' = CacheSet(cache, cacheConfig, key, data, ttlArg, now)
  /\ last' = [op |-> "set", key |-> key, ttl |-> ttlArg]
  /\ UNCHANGED <<cacheConfig, cleanupTimer, fetches, now, sdk, mgr, payVars>>

Get(key) ==
  /\ cache' = CacheGetStore(cache, key, now)
  /\ last' = [op |-> "get", key |-> key, found |-> StoreHas(cache, key),
              result |-> CacheGetResult(cache, key, now)]
  /\ UNCHANGED <<cacheConfig, cleanupTimer, fetches, now, sdk, mgr, payVars>>

Has(key) ==
  /\ cache' = CacheGetStore(cache, key, now)
  /\ last' = [op |-> "has", key |-> key, result |-> CacheHasResult(cache, key, now)]
  /\ UNCHANGED <<cacheConfig, cleanupTimer, fetches, now, sdk, mgr, payVars>>

Delete(key) ==
  /\ cache' = StoreDelete(cache, key)
  /\ last' = [op |-> "delete", key |-> key, result |-> StoreHas(cache, key)]
  /\ UNCHANGED <<cacheConfig, cleanupTimer, fetches, now, sdk, mgr, payVars>>

\* Cache.clear, also reached through AgentChainSDK.clearCache
Clear ==
  /\ cache' = <<>>
  /\ last' = [op |-> "clear"]
  /\ UNCHANGED <<cacheConfig, cleanupTimer, fetches, now, sdk, mgr, payVars>>

\* one firing of the setInterval callback installed by startCleanup
Cleanup ==
  /\ cleanupTimer
  /\ cache' = CacheCleanup(cache, now)
  /\ last' = [op |-> "cleanup", removed |-> Len(cache) - Len(CacheCleanup(cache, now))]
  /\ UNCHANGED <<cacheConfig, cleanupTimer, fetches, now, sdk, mgr, payVars>>

\* Cache.size
Size ==
  /\ last' = [op |-> "size", result |-> Len(cache)]
  /\ UNCHANGED <<cacheVars, now, sdk, mgr, payVars>>

\* Destroy with a fault: the entries are cleared but the interval is left running
DestroyKeepsTimer ==
  /\ cleanupTimer' = cleanupTimer
  /\ cache' = <<>>
  /\ last' = [op |-> "destroy", stopped |-> cleanupTimer]
  /\ UNCHANGED <<cacheConfig, fetches, now, sdk, mgr, payVars>>

\* Cache.destroy: "if (this.cleanupTimer)" stops the interval, then clear()
Destroy ==
  /\ cleanupTimer' = FALSE
  /\ cache' = <<>>
  /\ last' = [op |-> "destroy", stopped |-> cleanupTimer]
  /\ UNCHANGED <<cacheConfig, fetches, now, sdk, mgr, payVars>>

\* a stored value that is JavaScript null
Null == "null"

\* "cached !== null": get returned neither null for a miss nor a stored null
NotNull(cached) == cached # Absent /\ cached[1] # Null

\* Cache.getOrSet up to its return or to "await fetcher()"
GetOrSetBegin(slot, key, ttlArg) ==
  /\ fetches[slot] = Absent
  /\ cache' = CacheGetStore(cache, key, now)
  /\ LET cached == CacheGetResult(cache, key, now)
     IN  IF NotNull(cached)
         THEN /\ fetches' = fetches
              /\ last' = [op |-> "getOrSet", key |-> key, result |-> cached,
                          fetched |-> FALSE]
         ELSE /\ fetches' = [fetches EXCEPT ![slot] = Some([key |-> key, ttl |-> ttlArg])]
              /\ last' = [op |-> "getOrSet.fetch", key |-> key]
  /\ UNCHANGED <<cacheConfig, cleanupTimer, now, sdk, mgr, payVars>>

\* Cache.getOrSet after the fetcher resolved with data
GetOrSetEnd(slot, data) ==
  /\ fetches[slot] # Absent
  /\ LET call == fetches[slot][1]
     IN  /\ cache' = CacheSet(cache, cacheConfig, call.key, data, call.ttl, now)
         /\ last' = [op |-> "getOrSet", key |-> call.key, result |-> Some(data),
                     fetched |-> TRUE]
  /\ fetches' = [fetches EXCEPT ![slot] = Absent]
  /\ UNCHANGED <<cacheConfig, cleanupTimer, now, sdk, mgr, payVars>>

\* Cache.getOrSet after the fetcher rejected: the rejection goes to the caller
GetOrSetFail(slot) ==
  /\ fetches[slot] # Absent
  /\ fetches' = [fetches EXCEPT ![slot] = Absent]
  /\ last' = [op |-> "getOrSet.throw", key |-> fetches[slot][1].key]
  /\ UNCHANGED <<cache, cacheConfig, cleanupTimer, now, sdk, mgr, payVars>>

\* the clock advances by d
Tick(d, max) ==
  /\ now < max * d
  /\ now' = now + d
  /\ last' = [op |-> "tick"]
  /\ UNCHANGED <<cacheVars, payVars, sdk, mgr>>

----------------------------------------------------------------------------
(* PaymentProcessor: values *)

MaxPayments == 1     \* payments created in one run
MaxVerify == 1       \* caller verifyPayment calls in flight at once
PayCap == 2          \* maxSize of the shared cache instance, scaled down
MaxPayTicks == 1     \* number of clock steps in the payment runs
MaxChecks == 2       \* checks of each poller followed in the runs of every operation

maxAttempts == 30
AgentTTL == 30 * 60 * 1000        \* ttl of an agent:<id> cache entry: 30 minutes
PaymentTTL == 60 * 60 * 1000      \* ttl of a payment:<id> cache entry: 1 hour
CacheDefaultTTL == 5 * 60 * 1000  \* defaultTTL of the shared cache instance
TickMs == PaymentTTL + 1          \* clock step of the payment runs: just over the hour

PENDING == "pending"
CONFIRMED == "confirmed"
FAILED == "failed"
CANCELLED == "cancelled"

\* PaymentId with a fault: every payment gets the same id
PaymentIdFixed(n) == "payment_" \o ToString(1)

\* generatePaymentId: a fresh id for the n-th payment created
PaymentId(n) == "payment_" \o ToString(n)
\* the ids a caller may pass: those generated, and one that never is
AllIds == {PaymentId(n) : n \in 0..MaxPayments}
PaymentKey(id) == "payment:" \o id

Amounts == {-1, 0, 1}
Currencies == {"SOL", "USDC"}
Recipients == {"", "not-base58", "R1"}
ExpiresAts == {Absent, Some(0)}
Requests == [amount : Amounts, currency : Currencies, recipient : Recipients,
             expiresAt : ExpiresAts]
Users == {"u1"}
AgentIds == {Absent}
Signatures == {"sigA"}
VerifySlots == 1..MaxVerify

\* what connection.getSignatureStatus can answer: it throws, or resolves with
\* { value: null } or { value: { confirmationStatus, err } }
Responses ==
  {[throws |-> TRUE, hasValue |-> FALSE, confirmationStatus |-> "none", err |-> FALSE],
   [throws |-> FALSE, hasValue |-> FALSE, confirmationStatus |-> "none", err |-> FALSE]}
  \cup [throws : {FALSE}, hasValue : {TRUE},
        confirmationStatus : {"processed", "confirmed", "finalized"}, err : BOOLEAN]

\* what walletService.sendSOL can do: throw, or resolve with {signature, confirmed}
SendOutcomes ==
  {[throws |-> TRUE, confirmed |-> FALSE, signature |-> "none"]}
  \cup [throws : {FALSE}, confirmed : BOOLEAN, signature : Signatures]

----------------------------------------------------------------------------
(* PaymentProcessor: the payments Map and the pure parts of its methods *)

MapHas(map, id) == \E i \in 1..Len(map) : map[i].id = id

MapGet(map, id) == map[CHOOSE i \in 1..Len(map) : map[i].id = id]

\* MapSet with a fault: the status written spreads to every stored payment
MapSetStatusAll(map, id, payment) ==
  IF MapHas(map, id)
  THEN [i \in 1..Len(map) |->
          IF map[i].id = id THEN payment ELSE [map[i] EXCEPT !.status = payment.status]]
  ELSE Append(map, payment)

\* payments.set(id, payment): an existing id keeps its position
MapSet(map, id, payment) ==
  IF MapHas(map, id)
  THEN [i \in 1..Len(map) |-> IF map[i].id = id THEN payment ELSE map[i]]
  ELSE Append(map, payment)

\* WalletService.publicKeyFromString succeeds
ValidAddress(recipient) == recipient = "R1"

\* ValidatePaymentRequest with a fault: the amount check rejects negative amounts only
ValidatePaymentRequestNegative(request, t) ==
  IF request.amount < 0 THEN Some("Payment amount must be greater than 0")
  ELSE IF request.expiresAt # Absent /\ request.expiresAt[1] < t
       THEN Some("Payment request has expired")
  ELSE IF request.recipient = "" THEN Some("Payment recipient is required")
  ELSE IF ~ValidAddress(request.recipient) THEN Some("Invalid recipient address format")
  ELSE Absent

\* validatePaymentRequest: the message of the error thrown, if any
ValidatePaymentRequest(request, t) ==
  IF request.amount <= 0 THEN Some("Payment amount must be greater than 0")
  ELSE IF request.expiresAt # Absent /\ request.expiresAt[1] < t
       THEN Some("Payment request has expired")
  ELSE IF request.recipient = "" THEN Some("Payment recipient is required")
  ELSE IF ~ValidAddress(request.recipient) THEN Some("Invalid recipient address format")
  ELSE Absent

\* ProcessPaymentError with a fault: the wallet is not checked
ProcessPaymentErrorNoWalletCheck(request, connected, t) ==
  LET invalid == ValidatePaymentRequest(request, t)
  IN  IF invalid # Absent THEN <<"Failed to process payment", invalid[1]>>
      ELSE IF request.currency # "SOL"
           THEN <<"Failed to process payment", "SPL token payments not yet implemented">>
      ELSE <<>>

\* ProcessPaymentError with a fault: every currency takes the SOL path
ProcessPaymentErrorAnyCurrency(request, connected, t) ==
  LET invalid == ValidatePaymentRequest(request, t)
  IN  IF invalid # Absent THEN <<"Failed to process payment", invalid[1]>>
      ELSE IF ~connected THEN <<"Failed to process payment", "Wallet not connected">>
      ELSE <<>>

\* processPayment up to "await sendSOL": the messages of the error thrown, outermost
\* first, or <<>> when the transfer is started
ProcessPaymentError(request, connected, t) ==
  LET invalid == ValidatePaymentRequest(request, t)
  IN  IF invalid # Absent THEN <<"Failed to process payment", invalid[1]>>
      ELSE IF ~connected THEN <<"Failed to process payment", "Wallet not connected">>
      ELSE IF request.currency # "SOL"
           THEN <<"Failed to process payment", "SPL token payments not yet implemented">>
      ELSE <<>>

\* SendError with a fault: "result.confirmed" is not tested
SendErrorThrowOnly(outcome) ==
  IF outcome.throws
  THEN <<"Failed to process payment", "Failed to process SOL payment",
         "Failed to send SOL transaction">>
  ELSE <<>>

\* processSOLPayment after sendSOL settled: the error thrown, if any
SendError(outcome) ==
  IF outcome.throws
  THEN <<"Failed to process payment", "Failed to process SOL payment",
         "Failed to send SOL transaction">>
  ELSE IF ~outcome.confirmed
  THEN <<"Failed to process payment", "Failed to process SOL payment",
         "Transaction failed to confirm">>
  ELSE <<>>

\* NewPayment with a fault: the signature returned by the transfer is dropped
NewPaymentFixedSignature(id, call, signature, t) ==
  [id |-> id, agentId |-> call.agentId, userId |-> call.userId,
   amount |-> call.request.amount, currency |-> call.request.currency,
   txSignature |-> "sigA", status |-> PENDING, createdAt |-> t,
   confirmedAt |-> Absent]

\* the payment record built by processPayment
NewPayment(id, call, signature, t) ==
  [id |-> id, agentId |-> call.agentId, userId |-> call.userId,
   amount |-> call.request.amount, currency |-> call.request.currency,
   txSignature |-> signature, status |-> PENDING, createdAt |-> t,
   confirmedAt |-> Absent]

\* GetPaymentResult with a fault: no fallback to the payments map
GetPaymentResultCacheOnly(map, store, id, t) ==
  CacheGetResult(store, PaymentKey(id), t)

\* getPayment: the value returned
GetPaymentResult(map, store, id, t) ==
  LET cached == CacheGetResult(store, PaymentKey(id), t)
  IN  IF cached # Absent THEN cached
      ELSE IF MapHas(map, id) THEN Some(MapGet(map, id))
      ELSE Absent

\* GetPaymentCache with a fault: the cache is refreshed without the "if (payment)" test
GetPaymentCacheUnguarded(map, store, cfg, id, t) ==
  LET cached == CacheGetResult(store, PaymentKey(id), t)
      afterGet == CacheGetStore(store, PaymentKey(id), t)
  IN  IF cached = Absent
      THEN CacheSet(afterGet, cfg, PaymentKey(id),
                    IF MapHas(map, id) THEN MapGet(map, id) ELSE [id |-> id],
                    Some(PaymentTTL), t)
      ELSE afterGet

\* getPayment: the cache afterwards
GetPaymentCache(map, store, cfg, id, t) ==
  LET cached == CacheGetResult(store, PaymentKey(id), t)
      afterGet == CacheGetStore(store, PaymentKey(id), t)
  IN  IF cached = Absent /\ MapHas(map, id)
      THEN CacheSet(afterGet, cfg, PaymentKey(id), MapGet(map, id), Some(PaymentTTL), t)
      ELSE afterGet

\* IsConfirmed with a fault: only "finalized" counts as confirmed
IsFinalized(response) ==
  response.hasValue /\ response.confirmationStatus = "finalized"

\* verifyPayment after getSignatureStatus resolved: which branch is taken
IsConfirmed(response) ==
  response.hasValue /\ response.confirmationStatus \in {"confirmed", "finalized"}

IsFailed(response) == response.hasValue /\ response.err

\* verifyPayment after the oracle settled, for the payment read before the await:
\* whether it throws, the payment it returns and whether that payment is written
VerifyOutcome(payment, response, t) ==
  IF response.throws
  THEN [ok |-> FALSE, written |-> FALSE, payment |-> payment]
  ELSE IF IsConfirmed(response)
  THEN [ok |-> TRUE, written |-> TRUE,
        payment |-> [payment EXCEPT !.status = CONFIRMED, !.confirmedAt = Some(t)]]
  ELSE IF IsFailed(response)
  THEN [ok |-> TRUE, written |-> TRUE, payment |-> [payment EXCEPT !.status = FAILED]]
  ELSE [ok |-> TRUE, written |-> FALSE, payment |-> payment]

\* AfterCheck with a fault: "attempts <= maxAttempts" lets a 31st check be scheduled
AfterCheckOneMore(poll, outcome) ==
  IF ~outcome.ok
  THEN [poll EXCEPT !.state = "error", !.read = Absent]
  ELSE IF outcome.payment.status \in {CONFIRMED, FAILED}
  THEN [poll EXCEPT !.state = "done", !.read = Absent]
  ELSE [poll EXCEPT !.attempts = @ + 1, !.read = Absent,
                    !.state = IF poll.attempts + 1 <= maxAttempts
                              THEN "scheduled" ELSE "timeout"]

\* AfterCheck with a fault: the closure gives up one attempt early
AfterCheckOneFewer(poll, outcome) ==
  IF ~outcome.ok
  THEN [poll EXCEPT !.state = "error", !.read = Absent]
  ELSE IF outcome.payment.status \in {CONFIRMED, FAILED}
  THEN [poll EXCEPT !.state = "done", !.read = Absent]
  ELSE [poll EXCEPT !.attempts = @ + 1, !.read = Absent,
                    !.state = IF poll.attempts + 1 < maxAttempts - 1
                              THEN "scheduled" ELSE "timeout"]

\* checkConfirmation after "await this.verifyPayment": the closure's next state
AfterCheck(poll, outcome) ==
  IF ~outcome.ok
  THEN [poll EXCEPT !.state = "error", !.read = Absent]
  ELSE IF outcome.payment.status \in {CONFIRMED, FAILED}
  THEN [poll EXCEPT !.state = "done", !.read = Absent]
  ELSE [poll EXCEPT !.attempts = @ + 1, !.read = Absent,
                    !.state = IF poll.attempts + 1 < maxAttempts
                              THEN "scheduled" ELSE "timeout"]

\* "if (userId)": a filter value that is undefined or "" is not applied
FilterGiven(opt) == opt # Absent /\ opt[1] # ""

\* listPayments: the three filters over Array.from(this.payments.values())
ListFilter(map, options) ==
  LET byUser == IF FilterGiven(options.userId)
                THEN SelectSeq(map, LAMBDA p : p.userId = options.userId[1])
                ELSE map
      byAgent == IF FilterGiven(options.agentId)
                 THEN SelectSeq(byUser, LAMBDA p : p.agentId = options.agentId)
                 ELSE byUser
  IN  IF FilterGiven(options.status)
      THEN SelectSeq(byAgent, LAMBDA p : p.status = options.status[1])
      ELSE byAgent

\* one step of a stable sort by createdAt, newest first: p goes behind every
\* element at least as new as itself
InsertNewestFirst(sorted, p) ==
  LET ahead == SelectSeq(sorted, LAMBDA q : q.createdAt >= p.createdAt)
      behind == SelectSeq(sorted, LAMBDA q : q.createdAt < p.createdAt)
  IN  ahead \o <<p>> \o behind

RECURSIVE SortNewestFirst(_)
\* payments.sort((a, b) => b.createdAt.getTime() - a.createdAt.getTime())
SortNewestFirst(seq) ==
  IF seq = <<>> THEN <<>>
  ELSE InsertNewestFirst(SortNewestFirst(SubSeq(seq, 1, Len(seq) - 1)), seq[Len(seq)])

\* Array.prototype.slice(start, end): a negative index counts from the end
SliceIndex(i, len) ==
  IF i < 0 THEN (IF len + i < 0 THEN 0 ELSE len + i)
  ELSE IF i > len THEN len ELSE i

Slice(seq, start, end) ==
  SubSeq(seq, SliceIndex(start, Len(seq)) + 1, SliceIndex(end, Len(seq)))

\* "limit = 50, offset = 0": the defaults of the destructuring
DefaultLimit == 50
DefaultOffset == 0
ListLimit(options) == IF options.limit = Absent THEN DefaultLimit ELSE options.limit[1]
ListOffset(options) == IF options.offset = Absent THEN DefaultOffset ELSE options.offset[1]

\* listPayments: the array returned
ListPaymentsResult(map, options) ==
  Slice(SortNewestFirst(ListFilter(map, options)), ListOffset(options),
        ListOffset(options) + ListLimit(options))

----------------------------------------------------------------------------
(* PaymentProcessor and WalletService operations as steps *)

\* WalletService.connectWallet
ConnectWallet ==
  /\ ~wallet
  /\ wallet' = TRUE
  /\ last' = [op |-> "connectWallet"]
  /\ UNCHANGED <<cacheVars, now, sdk, mgr, payments, sending, verifying, pollers>>

\* WalletService.disconnectWallet
DisconnectWallet ==
  /\ wallet
  /\ wallet' = FALSE
  /\ last' = [op |-> "disconnectWallet"]
  /\ UNCHANGED <<cacheVars, now, sdk, mgr, payments, sending, verifying, pollers>>

\* processPayment up to its throw or to "await this.walletService.sendSOL(...)"
ProcessPayment(request, userId, agentId) ==
  /\ sending = Absent
  /\ LET error == ProcessPaymentError(request, wallet, now)
     IN  IF error # <<>>
         THEN /\ last' = [op |-> "processPayment", amount |-> request.amount,
                          ok |-> FALSE, error |-> error, result |-> Absent]
              /\ UNCHANGED sending
         ELSE /\ sending' = Some([request |-> request, userId |-> userId,
                                  agentId |-> agentId])
              /\ last' = [op |-> "processPayment.send", amount |-> request.amount]
  /\ UNCHANGED <<cacheVars, now, sdk, mgr, payments, wallet, verifying, pollers>>

\* processPayment after sendSOL settled: throw, or store the payment, cache it
\* and start monitorPaymentConfirmation (its first check is only scheduled)
SendSOLSettle(outcome) ==
  /\ sending # Absent
  /\ sending' = Absent
  /\ LET call == sending[1]
         error == SendError(outcome)
         payment == NewPayment(PaymentId(Len(payments) + 1), call,
                               outcome.signature, now)
     IN  IF error # <<>>
         THEN /\ last' = [op |-> "processPayment", amount |-> call.request.amount,
                          ok |-> FALSE, error |-> error, result |-> Absent]
              /\ UNCHANGED <<cache, payments, pollers>>
         ELSE /\ payments' = MapSet(payments, payment.id, payment)
              /\ cache' = CacheSet(cache, cacheConfig, PaymentKey(payment.id), payment,
                                   Some(PaymentTTL), now)
              /\ pollers' = Append(pollers, [state |-> "scheduled", attempts |-> 0,
                                             checks |-> 0, read |-> Absent])
              /\ last' = [op |-> "processPayment", amount |-> call.request.amount,
                          ok |-> TRUE, error |-> <<>>, result |-> Some(payment)]
  /\ UNCHANGED <<cacheConfig, cleanupTimer, fetches, now, sdk, mgr, wallet, verifying>>

\* getPayment
GetPayment(id) ==
  /\ cache' = GetPaymentCache(payments, cache, cacheConfig, id, now)
  /\ last' = [op |-> "getPayment", id |-> id,
              result |-> GetPaymentResult(payments, cache, id, now)]
  /\ UNCHANGED <<cacheConfig, cleanupTimer, fetches, now, sdk, mgr, payVars>>

\* a caller's verifyPayment up to its throw or to "await getSignatureStatus(...)"
VerifyPayment(slot, id) ==
  /\ verifying[slot] = Absent
  /\ cache' = GetPaymentCache(payments, cache, cacheConfig, id, now)
  /\ LET found == GetPaymentResult(payments, cache, id, now)
     IN  IF found = Absent
         THEN /\ last' = [op |-> "verifyPayment", id |-> id, ok |-> FALSE,
                          error |-> <<"Failed to verify payment", "Payment not found">>]
              /\ UNCHANGED verifying
         ELSE /\ verifying' = [verifying EXCEPT ![slot] = Some(found[1])]
              /\ last' = [op |-> "verifyPayment.query", id |-> id]
  /\ UNCHANGED <<cacheConfig, cleanupTimer, fetches, now, sdk, mgr, payments, wallet, sending,
                 pollers>>

\* VerifySettle with a fault: the updated record goes to the map but not to the cache
VerifySettleMapOnly(slot, response) ==
  /\ verifying[slot] # Absent
  /\ verifying' = [verifying EXCEPT ![slot] = Absent]
  /\ LET read == verifying[slot][1]
         outcome == VerifyOutcome(read, response, now)
     IN  /\ IF outcome.written
            THEN payments' = MapSet(payments, read.id, outcome.payment)
            ELSE UNCHANGED payments
         /\ last' = [op |-> "verifyPayment", id |-> read.id, ok |-> outcome.ok,
                     error |-> IF outcome.ok THEN <<>>
                               ELSE <<"Failed to verify payment", "getSignatureStatus">>,
                     response |-> response, result |-> outcome.payment]
  /\ UNCHANGED <<cacheVars, now, sdk, mgr, wallet, sending, pollers>>

\* a caller's verifyPayment after getSignatureStatus settled
VerifySettle(slot, response) ==
  /\ verifying[slot] # Absent
  /\ verifying' = [verifying EXCEPT ![slot] = Absent]
  /\ LET read == verifying[slot][1]
         outcome == VerifyOutcome(read, response, now)
     IN  /\ IF outcome.written
            THEN /\ payments' = MapSet(payments, read.id, outcome.payment)
                 /\ cache' = CacheSet(cache, cacheConfig, PaymentKey(read.id),
                                      outcome.payment, Some(PaymentTTL), now)
            ELSE UNCHANGED <<payments, cache>>
         /\ last' = [op |-> "verifyPayment", id |-> read.id, ok |-> outcome.ok,
                     error |-> IF outcome.ok THEN <<>>
                               ELSE <<"Failed to verify payment", "getSignatureStatus">>,
                     response |-> response, result |-> outcome.payment]
  /\ UNCHANGED <<cacheConfig, cleanupTimer, fetches, now, sdk, mgr, wallet, sending, pollers>>

\* the timer of monitorPaymentConfirmation fires: checkConfirmation runs
\* verifyPayment up to "await getSignatureStatus(...)"
CheckConfirmation(i) ==
  /\ pollers[i].state = "scheduled"
  /\ cache' = GetPaymentCache(payments, cache, cacheConfig, PaymentId(i), now)
  /\ LET found == GetPaymentResult(payments, cache, PaymentId(i), now)
     IN  pollers' = [pollers EXCEPT ![i] =
                       IF found = Absent
                       THEN [@ EXCEPT !.state = "error", !.checks = @ + 1]
                       ELSE [@ EXCEPT !.state = "checking", !.checks = @ + 1,
                                      !.read = found]]
  /\ last' = [op |-> "checkConfirmation.query", id |-> PaymentId(i)]
  /\ UNCHANGED <<cacheConfig, cleanupTimer, fetches, now, sdk, mgr, payments, wallet, sending,
                 verifying>>

\* checkConfirmation after getSignatureStatus settled: verifyPayment returns or
\* throws, then the closure stops, gives up or sets its next timer
CheckSettle(i, response) ==
  /\ pollers[i].state = "checking"
  /\ LET read == pollers[i].read[1]
         outcome == VerifyOutcome(read, response, now)
     IN  /\ IF outcome.written
            THEN /\ payments' = MapSet(payments, read.id, outcome.payment)
                 /\ cache' = CacheSet(cache, cacheConfig, PaymentKey(read.id),
                                      outcome.payment, Some(PaymentTTL), now)
            ELSE UNCHANGED <<payments, cache>>
         /\ pollers' = [pollers EXCEPT ![i] = AfterCheck(@, outcome)]
         /\ last' = [op |-> "checkConfirmation", id |-> read.id, ok |-> outcome.ok,
                     error |-> <<>>, response |-> response, result |-> outcome.payment]
  /\ UNCHANGED <<cacheConfig, cleanupTimer, fetches, now, sdk, mgr, wallet, sending, verifying>>

\* listPayments
ListPayments(options) ==
  /\ last' = [op |-> "listPayments", result |-> ListPaymentsResult(payments, options)]
  /\ UNCHANGED <<cacheVars, now, sdk, mgr, payVars>>

\* another service writes its own entry into the shared cache
\* (AgentManager: cache.set(`agent:${id}`, agent, 30 * 60 * 1000))
SetAgent ==
  /\ cache' = CacheSet(cache, cacheConfig, "agent:a1", [id |-> "a1"], Some(AgentTTL), now)
  /\ last' = [op |-> "set", key |-> "agent:a1", ttl |-> Some(AgentTTL)]
  /\ UNCHANGED <<cacheConfig, cleanupTimer, fetches, now, sdk, mgr, payVars>>

----------------------------------------------------------------------------
(* AgentChainSDK: the configuration object, getConfig and updateConfig.
   Objects live in sdk.objects and are named by their position there, so that
   an object handed out earlier can be told from a later copy. A field that is
   missing and a field set to undefined both read as "undefined". *)

MaxObjects == 3      \* configuration objects created in one run

Undefined == "undefined"
ConfigFields == {"environment", "solanaNetwork", "rpcEndpoint", "enableLogging"}

\* the defaults set by the constructor
DefaultConfig ==
  [f \in ConfigFields |->
     CASE f = "environment" -> "development"
       [] f = "solanaNetwork" -> "devnet"
       [] f = "rpcEndpoint" -> "https://api.devnet.solana.com"
       [] f = "enableLogging" -> "true"]

\* Partial<SDKConfig>: per field, not named (Absent) or named with a value
FieldUpdates(f) ==
  {Absent} \cup
  CASE f = "environment" -> {Some("production")}
    [] f = "solanaNetwork" -> {Some("mainnet-beta")}
    [] f = "rpcEndpoint" -> {Some("https://api.mainnet-beta.solana.com"), Some("")}
    [] f = "enableLogging" -> {Some("true"), Some("false"), Some(Undefined)}

ConfigUpdates == {u \in [ConfigFields -> UNION {FieldUpdates(f) : f \in ConfigFields}] :
                    \A f \in ConfigFields : u[f] \in FieldUpdates(f)}

\* MergeConfig with a fault: the fields not named fall back to the defaults
MergeOverDefaults(config, updates) ==
  [f \in ConfigFields |-> IF updates[f] # Absent THEN updates[f][1] ELSE DefaultConfig[f]]

\* { ...this.config, ...updates }
MergeConfig(config, updates) ==
  [f \in ConfigFields |-> IF updates[f] # Absent THEN updates[f][1] ELSE config[f]]

\* "if (updates.rpcEndpoint || updates.solanaNetwork)"
TruthyField(updates, f) == updates[f] # Absent /\ updates[f][1] \notin {Undefined, ""}

\* the level set by initialize and by updateConfig
LoggerLevel(config) == IF config["enableLogging"] = "true" THEN "INFO" ELSE "NONE"

\* the state after "new AgentChainSDK(options)"
NewSDK(options) ==
  [objects |-> <<MergeConfig(DefaultConfig, options)>>, config |-> 1,
   walletService |-> FALSE,
   logLevel |-> LoggerLevel(MergeConfig(DefaultConfig, options))]

NoOptions == [f \in ConfigFields |-> Absent]

\* getConfig: a new object with the fields of this.config
GetConfig ==
  /\ Len(sdk.objects) < MaxObjects
  /\ sdk' = [sdk EXCEPT !.objects = Append(@, sdk.objects[sdk.config])]
  /\ last' = [op |-> "getConfig", result |-> Len(sdk.objects) + 1]
  /\ UNCHANGED <<cacheVars, now, payVars, mgr>>

\* updateConfig
UpdateConfig(updates) ==
  /\ Len(sdk.objects) < MaxObjects
  /\ LET merged == MergeConfig(sdk.objects[sdk.config], updates)
     IN  sdk' = [objects |-> Append(sdk.objects, merged),
                 config |-> Len(sdk.objects) + 1,
                 walletService |->
                   IF TruthyField(updates, "rpcEndpoint")
                        \/ TruthyField(updates, "solanaNetwork")
                   THEN FALSE ELSE sdk.walletService,
                 logLevel |->
                   IF updates["enableLogging"] # Absent
                        /\ updates["enableLogging"][1] # Undefined
                   THEN LoggerLevel(merged) ELSE sdk.logLevel]
  /\ last' = [op |-> "updateConfig", updates |-> updates]
  /\ UNCHANGED <<cacheVars, now, payVars, mgr>>

\* the "wallet" getter: the WalletService is created on first use
GetWalletService ==
  /\ sdk' = [sdk EXCEPT !.walletService = TRUE]
  /\ last' = [op |-> "wallet"]
  /\ UNCHANGED <<cacheVars, now, payVars, mgr>>


----------------------------------------------------------------------------
(* AgentManager over the shared cache instance.
   An agent object is named by its oid: getAgent hands out the stored object
   itself, and deployAgent writes deployedAt into the object it got back from
   updateAgent, so a call that holds the same object sees that write.
   getAgent has no await of its own, so a call waiting at "await this.getAgent"
   or "await this.updateAgent" is a continuation in the job queue: mgr.calls is
   that queue, and continuations run in the order they were queued.
   Of the metadata only the name is kept; type and deploymentConfig are not
   represented. *)

MaxAgents == 1       \* agents created in one run
MaxAgentCalls == 2   \* updateAgent / deleteAgent / deployAgent calls waiting at once
MaxAgentWrites == 2  \* updateAgent and deployAgent calls begun in one run
MaxAgentTicks == 1   \* number of clock steps in the agent runs

DRAFT == "draft"
DEPLOYED == "deployed"
ACTIVE == "active"
PAUSED == "paused"

Owners == {"o1"}
AgentNames == {"bot", ""}

\* generateId: 'agent_' + time + random digits, taken as new each time
AgentId(n) == "agent_" \o ToString(n)
AgentCallIds == {AgentId(n) : n \in 0..MaxAgents}
AgentKey(id) == "agent:" \o id

\* the state after "new AgentManager()"; deleted and deployed record the ids
\* for which deleteAgent returned true and deployAgent returned an agent
NewManager ==
  [agents |-> <<>>, calls |-> <<>>,
   created |-> 0, objects |-> 0, begun |-> 0, deleted |-> {}, deployed |-> <<>>]

\* validateAgentMetadata, for the name
ValidName(name) == name # ""

\* the agent object built by createAgent
NewAgent(id, oid, owner, name, t) ==
  [id |-> id, oid |-> oid, ownerId |-> owner, name |-> name, status |-> DRAFT,
   createdAt |-> t, updatedAt |-> t, deployedAt |-> Absent]

\* getAgent: the value returned
GetAgentResult(map, store, id, t) ==
  LET cached == CacheGetResult(store, AgentKey(id), t)
  IN  IF cached # Absent THEN cached
      ELSE IF MapHas(map, id) THEN Some(MapGet(map, id))
      ELSE Absent

\* getAgent: the cache afterwards
GetAgentCache(map, store, cfg, id, t) ==
  LET cached == CacheGetResult(store, AgentKey(id), t)
      afterGet == CacheGetStore(store, AgentKey(id), t)
  IN  IF cached = Absent /\ MapHas(map, id)
      THEN CacheSet(afterGet, cfg, AgentKey(id), MapGet(map, id), Some(AgentTTL), t)
      ELSE afterGet

\* agents.delete(agentId)
MapDelete(map, id) == SelectSeq(map, LAMBDA a : a.id # id)

\* the options of updateAgent: pauseAgent, resumeAgent, a rename, an empty name
NoUpdate == [status |-> Absent, name |-> Absent]
UpdateOptions ==
  {[status |-> Some(PAUSED), name |-> Absent],
   [status |-> Some(ACTIVE), name |-> Absent],
   [status |-> Absent, name |-> Some("bot2")],
   [status |-> Absent, name |-> Some("")]}

\* updateAgent after "await this.getAgent": the error thrown, if any
UpdateAgentError(read, options) ==
  IF read = Absent THEN Some("AGENT_NOT_FOUND")
  ELSE IF options.name # Absent /\ ~ValidName(options.name[1]) THEN Some("INVALID_AGENT_NAME")
  ELSE Absent

\* updateAgent: the object "updatedAgent"
UpdatedAgent(agent, options, oid, t) ==
  [agent EXCEPT !.oid = oid,
                !.name = IF options.name # Absent THEN options.name[1] ELSE @,
                !.status = IF options.status # Absent /\ options.status[1] # ""
                           THEN options.status[1] ELSE @,
                !.updatedAt = t]

\* DeployAgentError with a fault: no test of the status
DeployAgentErrorAnyStatus(read) ==
  IF read = Absent THEN Some("AGENT_NOT_FOUND")
  ELSE Absent

\* deployAgent after "await this.getAgent": the error thrown, if any
DeployAgentError(read) ==
  IF read = Absent THEN Some("AGENT_NOT_FOUND")
  ELSE IF read[1].status # DRAFT THEN Some("INVALID_AGENT_STATUS")
  ELSE Absent

\* "deployedAgent.deployedAt = new Date()" as seen by a call holding an object
Stamped(held, oid, t) ==
  IF held # Absent /\ held[1].oid = oid
  THEN Some([held[1] EXCEPT !.deployedAt = Some(t)])
  ELSE held

\* listAgents: the array returned, for the default sortBy and sortOrder
ListAgentsFilter(map, options) ==
  SelectSeq(map, LAMBDA a :
    /\ Truthy(options.ownerId) => a.ownerId = options.ownerId[1]
    /\ Truthy(options.status) => a.status = options.status[1])

ListAgentsResult(map, options) ==
  Slice(SortNewestFirst(ListAgentsFilter(map, options)), ListOffset(options),
        ListOffset(options) + ListLimit(options))

ListAgentsOptions ==
  [ownerId : {Absent}, status : {Absent, Some(DRAFT)}, limit : {Absent}, offset : {Absent}]

(* AgentManager operations as steps *)

\* createAgent: no await, one step
CreateAgent(owner, name) ==
  /\ mgr.created < MaxAgents
  /\ IF ~ValidName(name)
     THEN /\ last' = [op |-> "createAgent", error |-> Some("AGENT_CREATION_FAILED")]
          /\ UNCHANGED <<mgr, cache>>
     ELSE LET agent == NewAgent(AgentId(mgr.created + 1), mgr.objects + 1, owner, name, now)
          IN  /\ mgr' = [mgr EXCEPT !.agents = MapSet(@, agent.id, agent),
                                    !.created = @ + 1, !.objects = @ + 1]
              /\ cache' = CacheSet(cache, cacheConfig, AgentKey(agent.id), agent,
                                   Some(AgentTTL), now)
              /\ last' = [op |-> "createAgent", error |-> Absent, id |-> agent.id]
  /\ UNCHANGED <<cacheConfig, cleanupTimer, fetches, now, sdk, payVars>>

\* getAgent called from outside: no await, one step
GetAgent(id) ==
  /\ cache' = GetAgentCache(mgr.agents, cache, cacheConfig, id, now)
  /\ last' = [op |-> "getAgent", id |-> id,
              result |-> GetAgentResult(mgr.agents, cache, id, now)]
  /\ UNCHANGED <<cacheConfig, cleanupTimer, fetches, now, sdk, payVars, mgr>>

\* listAgents: no await, one step
ListAgents(options) ==
  /\ last' = [op |-> "listAgents", result |-> ListAgentsResult(mgr.agents, options)]
  /\ UNCHANGED <<cacheVars, now, sdk, payVars, mgr>>

\* a call up to its "await this.getAgent(agentId)": getAgent has run, and the
\* rest of the call is queued behind the continuations already waiting
AwaitGetAgent(op, id, options) ==
  /\ Len(mgr.calls) < MaxAgentCalls
  /\ mgr' = [mgr EXCEPT
       !.calls = Append(@, [op |-> op, id |-> id, options |-> options, pc |-> "get",
                            read |-> GetAgentResult(mgr.agents, cache, id, now)]),
       !.begun = IF op = "deleteAgent" THEN @ ELSE @ + 1]
  /\ cache' = GetAgentCache(mgr.agents, cache, cacheConfig, id, now)
  /\ last' = [op |-> op \o ".getAgent", id |-> id]
  /\ UNCHANGED <<cacheConfig, cleanupTimer, fetches, now, sdk, payVars>>

\* updateAgent (also pauseAgent, resumeAgent) up to its await
UpdateAgent(id, options) ==
  /\ mgr.begun < MaxAgentWrites
  /\ AwaitGetAgent("updateAgent", id, options)

\* updateAgent after its await
UpdateAgentResume ==
  /\ mgr.calls # <<>>
  /\ Head(mgr.calls).op = "updateAgent"
  /\ LET call == Head(mgr.calls)
         error == UpdateAgentError(call.read, call.options)
     IN  IF error # Absent
         THEN /\ mgr' = [mgr EXCEPT !.calls = Tail(@)]
              /\ last' = [op |-> "updateAgent", id |-> call.id, error |-> error]
              /\ UNCHANGED cache
         ELSE LET updated == UpdatedAgent(call.read[1], call.options, mgr.objects + 1, now)
              IN  /\ mgr' = [mgr EXCEPT !.calls = Tail(@),
                                        !.agents = MapSet(@, call.id, updated),
                                        !.objects = @ + 1]
                  /\ cache' = CacheSet(cache, cacheConfig, AgentKey(call.id), updated,
                                       Some(AgentTTL), now)
                  /\ last' = [op |-> "updateAgent", id |-> call.id, error |-> Absent,
                              result |-> updated]
  /\ UNCHANGED <<cacheConfig, cleanupTimer, fetches, now, sdk, payVars>>

\* deleteAgent up to its await
DeleteAgent(id) == AwaitGetAgent("deleteAgent", id, NoUpdate)

\* deleteAgent after its await
DeleteAgentResume ==
  /\ mgr.calls # <<>>
  /\ Head(mgr.calls).op = "deleteAgent"
  /\ LET call == Head(mgr.calls)
     IN  IF call.read = Absent
         THEN /\ mgr' = [mgr EXCEPT !.calls = Tail(@)]
              /\ last' = [op |-> "deleteAgent", id |-> call.id, result |-> FALSE]
              /\ UNCHANGED cache
         ELSE /\ mgr' = [mgr EXCEPT !.calls = Tail(@),
                                    !.agents = MapDelete(@, call.id),
                                    !.deleted = @ \cup {call.id}]
              /\ cache' = StoreDelete(cache, AgentKey(call.id))
              /\ last' = [op |-> "deleteAgent", id |-> call.id, result |-> TRUE]
  /\ UNCHANGED <<cacheConfig, cleanupTimer, fetches, now, sdk, payVars>>

\* deployAgent up to its await
DeployAgent(id) ==
  /\ mgr.begun < MaxAgentWrites
  /\ AwaitGetAgent("deployAgent", id, [status |-> Some(DEPLOYED), name |-> Absent])

\* deployAgent after "await this.getAgent": the two tests, then updateAgent up to
\* its own await
DeployAgentCheck ==
  /\ mgr.calls # <<>>
  /\ Head(mgr.calls).op = "deployAgent"
  /\ Head(mgr.calls).pc = "get"
  /\ LET call == Head(mgr.calls)
         error == DeployAgentError(call.read)
     IN  IF error # Absent
         THEN /\ mgr' = [mgr EXCEPT !.calls = Tail(@)]
              /\ last' = [op |-> "deployAgent", id |-> call.id, error |-> error]
              /\ UNCHANGED cache
         ELSE /\ mgr' = [mgr EXCEPT !.calls =
                           Append(Tail(@),
                                  [call EXCEPT !.pc = "update",
                                     !.read = GetAgentResult(mgr.agents, cache, call.id, now)])]
              /\ cache' = GetAgentCache(mgr.agents, cache, cacheConfig, call.id, now)
              /\ last' = [op |-> "deployAgent.updateAgent", id |-> call.id]
  /\ UNCHANGED <<cacheConfig, cleanupTimer, fetches, now, sdk, payVars>>

\* the updateAgent called by deployAgent, after its await
DeployAgentUpdate ==
  /\ mgr.calls # <<>>
  /\ Head(mgr.calls).op = "deployAgent"
  /\ Head(mgr.calls).pc = "update"
  /\ LET call == Head(mgr.calls)
         error == UpdateAgentError(call.read, call.options)
     IN  IF error # Absent
         THEN /\ mgr' = [mgr EXCEPT !.calls = Tail(@)]
              /\ last' = [op |-> "deployAgent", id |-> call.id, error |-> error]
              /\ UNCHANGED cache
         ELSE LET updated == UpdatedAgent(call.read[1], call.options, mgr.objects + 1, now)
              IN  /\ mgr' = [mgr EXCEPT
                       !.calls = Append(Tail(@), [call EXCEPT !.pc = "stamp",
                                                              !.read = Some(updated)]),
                       !.agents = MapSet(@, call.id, updated),
                       !.objects = @ + 1]
                  /\ cache' = CacheSet(cache, cacheConfig, AgentKey(call.id), updated,
                                       Some(AgentTTL), now)
                  /\ last' = [op |-> "deployAgent.updated", id |-> call.id]
  /\ UNCHANGED <<cacheConfig, cleanupTimer, fetches, now, sdk, payVars>>

\* deployAgent after "await this.updateAgent": deployedAt is written into the
\* object, which is stored and cached again
DeployAgentStamp ==
  /\ mgr.calls # <<>>
  /\ Head(mgr.calls).op = "deployAgent"
  /\ Head(mgr.calls).pc = "stamp"
  /\ LET call == Head(mgr.calls)
         deployed == [call.read[1] EXCEPT !.deployedAt = Some(now)]
         waiting == Tail(mgr.calls)
     IN  /\ mgr' = [mgr EXCEPT
              !.calls = [i \in 1..Len(waiting) |->
                           [waiting[i] EXCEPT !.read = Stamped(@, deployed.oid, now)]],
              !.agents = MapSet(@, call.id, deployed),
              !.deployed = Append(@, call.id)]
         /\ cache' = CacheSet(cache, cacheConfig, AgentKey(call.id), deployed,
                              Some(AgentTTL), now)
         /\ last' = [op |-> "deployAgent", id |-> call.id, error |-> Absent,
                     result |-> deployed]
  /\ UNCHANGED <<cacheConfig, cleanupTimer, fetches, now, sdk, payVars>>

----------------------------------------------------------------------------
(* The cache on its own: new Cache(config) with any small configuration *)

InitPay ==
  /\ payments = <<>>
  /\ wallet = FALSE
  /\ sending = Absent
  /\ verifying = [s \in VerifySlots |-> Absent]
  /\ pollers = <<>>
  /\ sdk = NewSDK(NoOptions)
  /\ mgr = NewManager

InitCache ==
  /\ cache = <<>>
  /\ cacheConfig \in [maxSize : 1..MaxCap, defaultTTL : {DefaultTTL}]
  /\ cleanupTimer = TRUE
  /\ fetches = [s \in FetchSlots |-> Absent]
  /\ now = 0
  /\ last = [op |-> "new"]
  /\ InitPay

\* capacity and ordering: every key shape, every operation, default ttl
NextCache ==
  \/ \E k \in CacheKeys : Set(k, "v1", Absent)
  \/ \E k \in CacheKeys : Get(k)
  \/ \E k \in CacheKeys : Has(k)
  \/ \E k \in CacheKeys : Delete(k)
  \/ Clear
  \/ Size
  \/ Cleanup
  \/ Destroy
  \/ \E s \in FetchSlots, k \in CacheKeys : GetOrSetBegin(s, k, Absent)
  \/ \E s \in FetchSlots : GetOrSetEnd(s, "v1")
  \/ Tick(1, MaxTime)

SpecCache == InitCache /\ [][NextCache]_vars

\* expiry: every ttl argument and several values, over two keys
NextExpiry ==
  \/ \E k \in ExpiryKeys, d \in CacheData, t \in TTLArgs : Set(k, d, t)
  \/ \E k \in ExpiryKeys : Get(k)
  \/ \E k \in ExpiryKeys : Has(k)
  \/ \E k \in ExpiryKeys : Delete(k)
  \/ Clear
  \/ Cleanup
  \/ Tick(1, MaxTime)

SpecExpiry == InitCache /\ [][NextExpiry]_vars

\* getOrSet calls that overlap: two callers, values that may be null
MaxOverlap == 2      \* getOrSet calls in flight at once in the overlap runs

OverlapSlots == 1..MaxOverlap
OverlapKeys == {"a", "b"}
OverlapData == {"v1", Null}

InitGetOrSet ==
  /\ cache = <<>>
  /\ cacheConfig = [maxSize |-> MaxCap, defaultTTL |-> DefaultTTL]
  /\ cleanupTimer = TRUE
  /\ fetches = [s \in OverlapSlots |-> Absent]
  /\ now = 0
  /\ last = [op |-> "new"]
  /\ InitPay

NextGetOrSet ==
  \/ \E k \in OverlapKeys, d \in OverlapData : Set(k, d, Absent)
  \/ \E k \in OverlapKeys : Delete(k)
  \/ \E s \in OverlapSlots, k \in OverlapKeys : GetOrSetBegin(s, k, Absent)
  \/ \E s \in OverlapSlots, d \in OverlapData : GetOrSetEnd(s, d)
  \/ \E s \in OverlapSlots : GetOrSetFail(s)
  \/ Tick(1, MaxTime)

SpecGetOrSet == InitGetOrSet /\ [][NextGetOrSet]_vars

----------------------------------------------------------------------------
(* The payment processor over the shared cache instance *)

Init ==
  /\ cache = <<>>
  /\ cacheConfig = [maxSize |-> PayCap, defaultTTL |-> CacheDefaultTTL]
  /\ cleanupTimer = TRUE
  /\ fetches = [s \in FetchSlots |-> Absent]
  /\ now = 0
  /\ last = [op |-> "new"]
  /\ InitPay

Next ==
  \/ ConnectWallet
  \/ DisconnectWallet
  \/ \E r \in Requests, u \in Users, a \in AgentIds :
        /\ Len(payments) < MaxPayments \/ ProcessPaymentError(r, wallet, now) # <<>>
        /\ ProcessPayment(r, u, a)
  \/ \E o \in SendOutcomes : SendSOLSettle(o)
  \/ \E id \in AllIds : GetPayment(id)
  \/ \E s \in VerifySlots, id \in AllIds : VerifyPayment(s, id)
  \/ \E s \in VerifySlots, r \in Responses : VerifySettle(s, r)
  \/ \E i \in 1..Len(pollers) : pollers[i].checks < MaxChecks /\ CheckConfirmation(i)
  \/ \E i \in 1..Len(pollers), r \in Responses : CheckSettle(i, r)
  \/ SetAgent
  \/ Clear
  \/ Cleanup
  \/ Tick(TickMs, MaxPayTicks)

Spec == Init /\ [][Next]_vars

\* the SDK's configuration on its own
NextConfig ==
  \/ GetConfig
  \/ \E u \in ConfigUpdates : UpdateConfig(u)
  \/ GetWalletService

SpecConfig == Init /\ [][NextConfig]_vars

\* the confirmation poller to its end: one valid payment, every oracle answer,
\* a caller verifying the same payment in between
ValidRequest == [amount |-> 1, currency |-> "SOL", recipient |-> "R1", expiresAt |-> Absent]

NextMonitor ==
  \/ ConnectWallet
  \/ \E u \in Users, a \in AgentIds : payments = <<>> /\ ProcessPayment(ValidRequest, u, a)
  \/ \E o \in SendOutcomes : SendSOLSettle(o)
  \/ \E s \in VerifySlots, id \in AllIds : VerifyPayment(s, id)
  \/ \E s \in VerifySlots, r \in Responses : VerifySettle(s, r)
  \/ \E i \in 1..Len(pollers) : CheckConfirmation(i)
  \/ \E i \in 1..Len(pollers), r \in Responses : CheckSettle(i, r)
  \/ Clear

SpecMonitor == Init /\ [][NextMonitor]_vars

----------------------------------------------------------------------------
(* processPayment on its own: every request, two callers, an optional agent and
   two signatures the transfer can return; one payment is created, and calls
   that fail go on after it *)

ProcessUsers == {"u1", "u2"}
ProcessAgentIds == {Absent, Some("a1")}
TransferSignatures == {"sigA", "sigB"}
TransferOutcomes ==
  {[throws |-> TRUE, confirmed |-> FALSE, signature |-> "none"]}
  \cup [throws : {FALSE}, confirmed : BOOLEAN, signature : TransferSignatures]

NextProcess ==
  \/ ConnectWallet
  \/ DisconnectWallet
  \/ \E r \in Requests, u \in ProcessUsers, a \in ProcessAgentIds :
        /\ payments = <<>> \/ ProcessPaymentError(r, wallet, now) # <<>>
        /\ ProcessPayment(r, u, a)
  \/ \E o \in TransferOutcomes : SendSOLSettle(o)
  \/ \E id \in AllIds : GetPayment(id)
  \/ Clear
  \/ Tick(TickMs, MaxPayTicks)

SpecProcess == Init /\ [][NextProcess]_vars

----------------------------------------------------------------------------
(* The poller left to itself: one payment, no caller verifying it. A timer that
   is set fires, and a status query that was sent is answered. *)

NextLive ==
  \/ ConnectWallet
  \/ \E u \in Users, a \in AgentIds : payments = <<>> /\ ProcessPayment(ValidRequest, u, a)
  \/ \E o \in SendOutcomes : SendSOLSettle(o)
  \/ \E i \in 1..Len(pollers) : CheckConfirmation(i)
  \/ \E i \in 1..Len(pollers), r \in Responses : CheckSettle(i, r)

TimerFires == \E i \in 1..Len(pollers) : CheckConfirmation(i)
QueryAnswered == \E i \in 1..Len(pollers), r \in Responses : CheckSettle(i, r)

SpecLive ==
  Init /\ [][NextLive]_vars /\ WF_vars(TimerFires) /\ WF_vars(QueryAnswered)

----------------------------------------------------------------------------
(* The agent manager: calls on one agent id and on an id never created, in
   every interleaving of their await points *)

NextAgents ==
  \/ \E o \in Owners, n \in AgentNames : CreateAgent(o, n)
  \/ \E id \in AgentCallIds : GetAgent(id)
  \/ \E o \in ListAgentsOptions : ListAgents(o)
  \/ \E id \in AgentCallIds, o \in UpdateOptions : UpdateAgent(id, o)
  \/ UpdateAgentResume
  \/ \E id \in AgentCallIds : DeleteAgent(id)
  \/ DeleteAgentResume
  \/ \E id \in AgentCallIds : DeployAgent(id)
  \/ DeployAgentCheck
  \/ DeployAgentUpdate
  \/ DeployAgentStamp
  \/ Tick(AgentTTL + 1, MaxAgentTicks)

SpecAgents == Init /\ [][NextAgents]_vars

----------------------------------------------------------------------------
(* Two payments made from the same request, each with its own poller, and a
   caller verifying either of them *)

MaxPair == 2         \* payments created in the two-payment runs
MaxPairChecks == 1   \* checks of each poller followed in the two-payment runs

PairIds == {PaymentId(n) : n \in 1..MaxPair}

\* oracle answers, one for each way verifyPayment can end
PairResponses ==
  {[throws |-> TRUE, hasValue |-> FALSE, confirmationStatus |-> "none", err |-> FALSE],
   [throws |-> FALSE, hasValue |-> TRUE, confirmationStatus |-> "processed", err |-> FALSE],
   [throws |-> FALSE, hasValue |-> TRUE, confirmationStatus |-> "processed", err |-> TRUE],
   [throws |-> FALSE, hasValue |-> TRUE, confirmationStatus |-> "confirmed", err |-> FALSE]}

NextPair ==
  \/ ConnectWallet
  \/ \E u \in Users, a \in AgentIds :
        Len(payments) < MaxPair /\ ProcessPayment(ValidRequest, u, a)
  \/ \E o \in SendOutcomes : SendSOLSettle(o)
  \/ \E id \in PairIds : GetPayment(id)
  \/ \E s \in VerifySlots, id \in PairIds : VerifyPayment(s, id)
  \/ \E s \in VerifySlots, r \in PairResponses : VerifySettle(s, r)
  \/ \E i \in 1..Len(pollers) : pollers[i].checks < MaxPairChecks /\ CheckConfirmation(i)
  \/ \E i \in 1..Len(pollers), r \in PairResponses : CheckSettle(i, r)

SpecPair == Init /\ [][NextPair]_vars

----------------------------------------------------------------------------
(* listPayments over several payments that differ in user, agent, status and
   creation time *)

MaxListed == 2       \* payments created in the listing runs

ListUsers == {"", "u1"}
ListIds == {PaymentId(n) : n \in 1..MaxListed}
ListOptions ==
  [userId : {Absent, Some(""), Some("u1")},
   agentId : {Absent, Some("a1")},
   status : {Absent, Some(CONFIRMED)},
   limit : {Absent, Some(1)},
   offset : {Absent, Some(1)}]

NextList ==
  \/ ConnectWallet
  \/ \E u \in ListUsers, a \in ProcessAgentIds :
        Len(payments) < MaxListed /\ ProcessPayment(ValidRequest, u, a)
  \/ \E o \in SendOutcomes : SendSOLSettle(o)
  \/ \E s \in VerifySlots, id \in ListIds : VerifyPayment(s, id)
  \/ \E s \in VerifySlots, r \in Responses : VerifySettle(s, r)
  \/ \E o \in ListOptions : ListPayments(o)
  \/ Tick(TickMs, MaxPayTicks)

SpecList == Init /\ [][NextList]_vars

----------------------------------------------------------------------------
(* Properties *)

Terminal == {CONFIRMED, FAILED, CANCELLED}
VerifyOps == {"verifyPayment", "checkConfirmation"}

\* C1: once a payment's status is CONFIRMED, FAILED or CANCELLED, no step of any
\* interleaving changes it again, whatever the status oracle answers.
C1_StatusMonotone ==
  [][\A i \in 1..Len(payments) :
       payments[i].status \in Terminal => payments'[i].status = payments[i].status]_vars

\* C2: processPayment with amount <= 0 throws "Payment amount must be greater than 0"
\* (wrapped as "Failed to process payment") whatever the wallet state, currency,
\* recipient and expiry, and changes nothing: no payment in the map or the cache,
\* no transfer started, no poll scheduled.
C2_NonPositiveAmountRejected ==
  [][(last'.op \in {"processPayment", "processPayment.send"} /\ last'.amount <= 0)
       => /\ last'.op = "processPayment"
          /\ ~last'.ok
          /\ last'.error = <<"Failed to process payment",
                             "Payment amount must be greater than 0">>
          /\ UNCHANGED <<payments, cache, sending, pollers>>]_vars

C2_Witness ==
  /\ last.op = "processPayment"
  /\ last.amount <= 0
  /\ ~last.ok
  /\ wallet
  /\ Len(payments) > 0

\* C3: the cache never holds more than maxSize entries.
C3_SizeWithinMax == Len(cache) <= cacheConfig.maxSize

\* C4: set of a key not in the store, while the store holds maxSize entries,
\* removes exactly the oldest entry by insertion order and keeps every other one.
C4_EvictsOldest ==
  [][(last'.op = "set" /\ ~StoreHas(cache, last'.key)
        /\ Len(cache) = cacheConfig.maxSize)
       => /\ StoreKeys(cache') = (StoreKeys(cache) \ {cache[1].key}) \cup {last'.key}
          /\ \A k \in StoreKeys(cache) \ {cache[1].key} :
               StoreGet(cache', k) = StoreGet(cache, k)]_vars

\* C5: get(key) on a stored entry returns absent and removes the entry when the
\* time since it was stored exceeds its own ttl, whether or not the sweep ran;
\* otherwise it returns the stored value and leaves the entry as it is.
C5_LazyExpiry ==
  [][(last'.op = "get" /\ StoreHas(cache, last'.key))
       => LET entry == StoreGet(cache, last'.key)
          IN  IF now - entry.timestamp > entry.ttl
              THEN /\ last'.result = Absent
                   /\ ~StoreHas(cache', last'.key)
              ELSE /\ last'.result = Some(entry.data)
                   /\ StoreHas(cache', last'.key)
                   /\ StoreGet(cache', last'.key) = entry]_vars

C5_Witness ==
  /\ last.op = "get"
  /\ last.found
  /\ last.result = Absent
  /\ ~StoreHas(cache, last.key)
  /\ cleanupTimer

\* C6: when a poller check throws, the attempt counter still advances and, below
\* 30 attempts, another check is scheduled.
C6_TransientErrorRetried ==
  [][\A i \in 1..Len(pollers) :
       (pollers[i].state = "checking" /\ last'.op = "checkConfirmation"
          /\ last'.id = PaymentId(i) /\ ~last'.ok)
       => /\ pollers'[i].attempts = pollers[i].attempts + 1
          /\ (pollers'[i].attempts < maxAttempts => pollers'[i].state = "scheduled")]_vars

\* C7: a poller performs at most 30 checks; when the 30th returns a payment that
\* is neither CONFIRMED nor FAILED the poller stops: that step leaves the map and
\* the cache as they are, the payment the check returned is PENDING and the
\* check did not throw.
C7_AtMostThirtyChecks ==
  [][\A i \in 1..Len(pollers') :
       /\ pollers'[i].checks <= maxAttempts
       /\ pollers'[i].attempts <= maxAttempts
       /\ pollers'[i].state = "scheduled" => pollers'[i].attempts < maxAttempts
       /\ (i <= Len(pollers) /\ pollers[i].state # "timeout"
             /\ pollers'[i].state = "timeout")
          => /\ pollers'[i].checks = maxAttempts
             /\ pollers[i].read[1].status = PENDING
             /\ last'.ok
             /\ UNCHANGED <<payments, cache>>]_vars

C7_Witness ==
  \E i \in 1..Len(pollers) :
    /\ pollers[i].state = "timeout"
    /\ pollers[i].checks = maxAttempts
    /\ payments[i].status = PENDING

\* C8: a verifyPayment that returns after the oracle answered "confirmed" or
\* "finalized" returns the payment CONFIRMED with confirmedAt set, and the map and
\* the cache both hold exactly that record for the id.
C8_ConfirmedPersisted ==
  (last.op \in VerifyOps /\ last.ok /\ last.response.hasValue
     /\ last.response.confirmationStatus \in {"confirmed", "finalized"})
  => /\ last.result.status = CONFIRMED
     /\ last.result.confirmedAt # Absent
     /\ MapHas(payments, last.id)
     /\ MapGet(payments, last.id) = last.result
     /\ StoreHas(cache, PaymentKey(last.id))
     /\ StoreGet(cache, PaymentKey(last.id)).data = last.result

C8_Witness ==
  /\ last.op = "verifyPayment"
  /\ last.ok
  /\ last.response.confirmationStatus = "finalized"
  /\ last.result.status = CONFIRMED
  /\ last.result.confirmedAt # Absent

\* C9: whenever the oracle's answer carries an error, verifyPayment on a stored
\* PENDING payment makes it FAILED in the map and the cache, and a poller that
\* made the check stops.
C9_ErrorMeansFailed ==
  [][(last'.op \in VerifyOps /\ last'.ok /\ last'.response.err
        /\ MapGet(payments, last'.id).status = PENDING)
       => /\ last'.result.status = FAILED
          /\ MapGet(payments', last'.id).status = FAILED
          /\ StoreHas(cache', PaymentKey(last'.id))
          /\ StoreGet(cache', PaymentKey(last'.id)).data.status = FAILED
          /\ last'.op = "checkConfirmation"
             => \A i \in 1..Len(pollers) :
                  PaymentId(i) = last'.id => pollers'[i].state = "done"]_vars

\* C10: verifyPayment of an id that is in neither the map nor the cache throws
\* "Payment not found" (wrapped as "Failed to verify payment"), issues no oracle
\* query and leaves the map, the cache and the pollers unchanged.
C10_UnknownIdNotFound ==
  [][(last'.op \in {"verifyPayment", "verifyPayment.query"}
        /\ ~MapHas(payments, last'.id) /\ ~StoreHas(cache, PaymentKey(last'.id)))
       => /\ last'.op = "verifyPayment"
          /\ ~last'.ok
          /\ last'.error = <<"Failed to verify payment", "Payment not found">>
          /\ UNCHANGED <<payments, cache, verifying, pollers>>]_vars

C10_Witness ==
  /\ last.op = "verifyPayment"
  /\ ~last.ok
  /\ last.error = <<"Failed to verify payment", "Payment not found">>
  /\ ~MapHas(payments, last.id)
  /\ Len(payments) > 0

\* a request that passes validatePaymentRequest at time t
PassesValidation(r, t) ==
  /\ r.amount > 0
  /\ r.expiresAt = Absent \/ r.expiresAt[1] >= t
  /\ r.recipient = "R1"

\* C11: when the transfer of a processPayment call succeeds, the call returns a
\* PENDING payment with the request's amount and currency, the caller's userId and
\* the signature the transfer returned; the map holds that record, the cache holds
\* it under payment:<id> with a ttl of one hour, and a poller for it is scheduled.
C11_SuccessRecorded ==
  [][\A o \in TransferOutcomes :
       (~o.throws /\ o.confirmed /\ SendSOLSettle(o))
       => LET call == sending[1]
              p == last'.result[1]
          IN  /\ last'.ok
              /\ p.status = PENDING
              /\ p.amount = call.request.amount
              /\ p.currency = call.request.currency
              /\ p.currency = "SOL"
              /\ p.userId = call.userId
              /\ p.txSignature = o.signature
              /\ MapHas(payments', p.id) /\ MapGet(payments', p.id) = p
              /\ StoreHas(cache', PaymentKey(p.id))
              /\ StoreGet(cache', PaymentKey(p.id)) =
                   [data |-> p, timestamp |-> now, ttl |-> 60 * 60 * 1000]
              /\ Len(pollers') = Len(pollers) + 1
              /\ pollers'[Len(pollers')].state = "scheduled"
              /\ PaymentId(Len(pollers')) = p.id]_vars

C11_Witness ==
  /\ last.op = "processPayment"
  /\ last.ok
  /\ last.result[1].txSignature = "sigB"
  /\ last.result[1].userId = "u2"
  /\ MapHas(payments, last.result[1].id)
  /\ Len(pollers) = 1

\* C14: processPayment with a request that passes validation, while the wallet is
\* not connected, throws "Wallet not connected" (wrapped as "Failed to process
\* payment"); no transfer is started, no payment is stored or cached and no
\* poller is scheduled.
C14_NoWalletRejected ==
  [][\A r \in Requests, u \in ProcessUsers, a \in ProcessAgentIds :
       (~wallet /\ PassesValidation(r, now) /\ ProcessPayment(r, u, a))
       => /\ last'.op = "processPayment"
          /\ ~last'.ok
          /\ last'.error = <<"Failed to process payment", "Wallet not connected">>
          /\ sending' = Absent
          /\ UNCHANGED <<payments, cache, pollers>>]_vars

C14_Witness ==
  /\ last.op = "processPayment"
  /\ ~last.ok
  /\ last.error = <<"Failed to process payment", "Wallet not connected">>
  /\ ~wallet
  /\ sending = Absent

\* C15 as stated: processPayment with a request that passes validation and whose
\* currency is not "SOL" throws "SPL token payments not yet implemented", starts no
\* transfer and stores no payment.
C15_NonSOLNotImplemented ==
  [][\A r \in Requests, u \in ProcessUsers, a \in ProcessAgentIds :
       (r.currency # "SOL" /\ PassesValidation(r, now) /\ ProcessPayment(r, u, a))
       => /\ last'.op = "processPayment"
          /\ ~last'.ok
          /\ last'.error = <<"Failed to process payment",
                             "SPL token payments not yet implemented">>
          /\ sending' = Absent
          /\ UNCHANGED <<payments, cache, pollers>>]_vars

\* C15 amended: the same, for a call made while the wallet is connected; in every
\* case a non-SOL request starts no transfer and stores no payment.
C15_NonSOLNotImplementedConnected ==
  [][\A r \in Requests, u \in ProcessUsers, a \in ProcessAgentIds :
       (r.currency # "SOL" /\ PassesValidation(r, now) /\ ProcessPayment(r, u, a))
       => /\ last'.op = "processPayment"
          /\ ~last'.ok
          /\ wallet => last'.error = <<"Failed to process payment",
                                       "SPL token payments not yet implemented">>
          /\ sending' = Absent
          /\ UNCHANGED <<payments, cache, pollers>>]_vars

C15_Witness ==
  /\ last.op = "processPayment"
  /\ ~last.ok
  /\ last.error = <<"Failed to process payment",
                    "SPL token payments not yet implemented">>
  /\ wallet
  /\ sending = Absent

\* C16: a processPayment call has at most one transfer in flight, started by the
\* call itself; when that transfer throws or resolves unconfirmed the call throws
\* at once: no transfer is in flight afterwards, no payment is stored or cached
\* and no poller is scheduled.
C16_FailedTransferNotRetried ==
  [][/\ \A o \in TransferOutcomes :
          ((o.throws \/ ~o.confirmed) /\ SendSOLSettle(o))
          => /\ last'.op = "processPayment"
             /\ ~last'.ok
             /\ last'.error[1] = "Failed to process payment"
             /\ sending' = Absent
             /\ UNCHANGED <<payments, cache, pollers>>
     /\ (sending # Absent /\ sending' # Absent) => sending' = sending
     /\ \A o \in TransferOutcomes : SendSOLSettle(o) => sending' = Absent]_vars

C16_Witness ==
  /\ last.op = "processPayment"
  /\ ~last.ok
  /\ Len(last.error) = 3
  /\ last.error[3] = "Transaction failed to confirm"
  /\ sending = Absent
  /\ payments = <<>>

\* a stored payment equals the filter on every field the filter supplies
MatchesFilter(p, o) ==
  /\ o.userId # Absent => p.userId = o.userId[1]
  /\ o.agentId # Absent => p.agentId = o.agentId
  /\ o.status # Absent => p.status = o.status[1]

\* the orderings, newest first, of the stored payments that match the filter
NewestFirstOrderings(map, o) ==
  LET matching == {map[i] : i \in {j \in 1..Len(map) : MatchesFilter(map[j], o)}}
      n == Cardinality(matching)
  IN  {f \in [1..n -> matching] :
         /\ \A i, j \in 1..n : i # j => f[i] # f[j]
         /\ \A i \in 1..(n - 1) : f[i].createdAt >= f[i + 1].createdAt}

\* positions [offset, offset + limit) of an ordering, counted from 0
Page(full, offset, limit) ==
  SubSeq(full, offset + 1, IF offset + limit > Len(full) THEN Len(full) ELSE offset + limit)

\* the filters of MatchesFilter hold only for supplied values that are not ""
ListOptionsNonEmpty == {o \in ListOptions : o.userId # Some("")}

\* C12: listPayments(filter) returns the stored payments that equal the filter
\* on every supplied field, newest first, cut to positions [offset, offset+limit)
\* (defaults 50 and 0), and leaves the payments map unchanged.
C12_ListExact ==
  [][last'.op = "listPayments"
       => \A o \in ListOptions :
            ListPayments(o)
            => /\ \E full \in NewestFirstOrderings(payments, o) :
                    last'.result = Page(full, IF o.offset = Absent THEN 0 ELSE o.offset[1],
                                        IF o.limit = Absent THEN 50 ELSE o.limit[1])
               /\ payments' = payments]_vars

\* C12 for filter values other than "": the same statement
C12_ListExactNonEmpty ==
  [][last'.op = "listPayments"
       => \A o \in ListOptionsNonEmpty :
            ListPayments(o)
            => /\ \E full \in NewestFirstOrderings(payments, o) :
                    last'.result = Page(full, IF o.offset = Absent THEN 0 ELSE o.offset[1],
                                        IF o.limit = Absent THEN 50 ELSE o.limit[1])
               /\ payments' = payments]_vars

C12_Witness ==
  /\ last.op = "listPayments"
  /\ Len(payments) = 2
  /\ Len(last.result) = 2
  /\ last.result[1] = payments[2]
  /\ last.result[1].createdAt > last.result[2].createdAt

\* C13: size() called right after clear() returns 0; every destroy(), the first
\* and any later one, completes and leaves the cache empty and the cleanup
\* interval stopped; once the interval is stopped it stays stopped and the
\* cleanup callback does not run again.
C13_ClearDestroyIdempotent ==
  [][/\ last'.op = "clear" => Len(cache') = 0
     /\ (last.op = "clear" /\ last'.op = "size") => last'.result = 0
     /\ last'.op = "destroy" => (Len(cache') = 0 /\ ~cleanupTimer')
     /\ ~cleanupTimer => (~cleanupTimer' /\ last'.op # "cleanup")
     /\ ENABLED Destroy]_vars

C13_Witness ==
  /\ last.op = "destroy"
  /\ ~last.stopped
  /\ Len(cache) = 0
  /\ ~cleanupTimer
  /\ now > 0

\* C17: for an id in the payments map, getPayment returns the map's record
\* whether the cache holds the entry, lost it or holds it expired, and afterwards
\* the cache holds that record (written anew, with a ttl of one hour, when the
\* lookup missed); for an id in neither store it returns absent; the map is
\* not changed.
C17_MapIsSourceOfTruth ==
  [][last'.op = "getPayment"
       => LET id == last'.id
              key == PaymentKey(id)
              miss == \/ ~StoreHas(cache, key)
                      \/ now - StoreGet(cache, key).timestamp > StoreGet(cache, key).ttl
          IN  /\ payments' = payments
              /\ MapHas(payments, id)
                   => /\ last'.result = Some(MapGet(payments, id))
                      /\ StoreHas(cache', key)
                      /\ StoreGet(cache', key).data = MapGet(payments, id)
                      /\ miss => StoreGet(cache', key) =
                                   [data |-> MapGet(payments, id), timestamp |-> now,
                                    ttl |-> 60 * 60 * 1000]
              /\ (~MapHas(payments, id) /\ ~StoreHas(cache, key))
                   => (last'.result = Absent /\ ~StoreHas(cache', key))]_vars

C17_Witness ==
  /\ last.op = "getPayment"
  /\ last.result # Absent
  /\ last.result[1].status = CONFIRMED
  /\ MapGet(payments, last.id) = last.result[1]
  /\ StoreGet(cache, PaymentKey(last.id)).timestamp > last.result[1].confirmedAt[1]

\* C18: getOrSet on a key with an unexpired entry returns the entry's value and
\* does not invoke the supplier; on any other key it invokes the supplier, and
\* when the supplier resolves it stores the value and returns it.
C18_GetOrSetUsesCache ==
  [][/\ \A s \in OverlapSlots, k \in OverlapKeys :
          (fetches[s] = Absent /\ GetOrSetBegin(s, k, Absent))
          => IF StoreHas(cache, k)
                  /\ now - StoreGet(cache, k).timestamp <= StoreGet(cache, k).ttl
             THEN /\ fetches' = fetches
                  /\ last'.op = "getOrSet"
                  /\ last'.result = Some(StoreGet(cache, k).data)
             ELSE fetches'[s] = Some([key |-> k, ttl |-> Absent])
     /\ \A s \in OverlapSlots, d \in OverlapData :
          (fetches[s] # Absent /\ GetOrSetEnd(s, d))
          => /\ last'.result = Some(d)
             /\ StoreHas(cache', fetches[s][1].key)
             /\ StoreGet(cache', fetches[s][1].key).data = d]_vars

\* C18 for stored values other than null: the same statement
C18_GetOrSetUsesCacheNonNull ==
  [][/\ \A s \in OverlapSlots, k \in OverlapKeys :
          (fetches[s] = Absent /\ GetOrSetBegin(s, k, Absent))
          => IF StoreHas(cache, k)
                  /\ now - StoreGet(cache, k).timestamp <= StoreGet(cache, k).ttl
                  /\ StoreGet(cache, k).data # Null
             THEN /\ fetches' = fetches
                  /\ last'.op = "getOrSet"
                  /\ last'.result = Some(StoreGet(cache, k).data)
             ELSE fetches'[s] = Some([key |-> k, ttl |-> Absent])
     /\ \A s \in OverlapSlots, d \in OverlapData :
          (fetches[s] # Absent /\ GetOrSetEnd(s, d))
          => /\ last'.result = Some(d)
             /\ StoreHas(cache', fetches[s][1].key)
             /\ StoreGet(cache', fetches[s][1].key).data = d]_vars

\* two getOrSet calls for one key, both waiting for their own supplier call
C18_Witness ==
  /\ fetches[1] # Absent
  /\ fetches[2] # Absent
  /\ fetches[1][1].key = fetches[2][1].key
  /\ ~StoreHas(cache, fetches[1][1].key)

\* C19: updateConfig(updates) gives this.config the value of updates for every
\* field updates names and the previous value for every other field, as the next
\* getConfig reads it; no object that existed before the call, the earlier
\* results of getConfig among them, is altered.
C19_UpdateConfigFrame ==
  [][last'.op = "updateConfig"
       => LET u == last'.updates
              before == sdk.objects[sdk.config]
              after == sdk'.objects[sdk'.config]
          IN  /\ \A f \in ConfigFields :
                   after[f] = IF u[f] # Absent THEN u[f][1] ELSE before[f]
              /\ \A i \in 1..Len(sdk.objects) : sdk'.objects[i] = sdk.objects[i]]_vars

\* getConfig returns an object of its own with the fields of this.config
C19_GetConfigCopies ==
  [][last'.op = "getConfig"
       => /\ last'.result # sdk.config
          /\ last'.result \notin 1..Len(sdk.objects)
          /\ sdk'.objects[last'.result] = sdk.objects[sdk.config]
          /\ sdk'.config = sdk.config]_vars

\* a getConfig after an update, with an object from before the update still
\* holding the old value of a field the update changed
C19_Witness ==
  /\ last.op = "getConfig"
  /\ Len(sdk.objects) = 3
  /\ sdk.config = 2
  /\ sdk.objects[3]["enableLogging"] = "false"
  /\ sdk.objects[1]["enableLogging"] = "true"
  /\ sdk.objects[3]["environment"] = sdk.objects[1]["environment"]

\* C20: set(key, value, ttl) leaves under key an entry with the value, the
\* current time and the supplied ttl, for every supplied ttl >= 0; with no ttl
\* supplied the entry has the configured default ttl; an entry already under
\* the key is replaced.
C20_SetStoresGivenTTL ==
  [][last'.op = "set"
       => \A d \in CacheData :
            Set(last'.key, d, last'.ttl)
            => /\ StoreHas(cache', last'.key)
               /\ StoreGet(cache', last'.key) =
                    [data |-> d, timestamp |-> now,
                     ttl |-> IF last'.ttl # Absent THEN last'.ttl[1]
                             ELSE cacheConfig.defaultTTL]]_vars

\* C20 for a ttl that is omitted or positive: the same statement
C20_SetStoresPositiveTTL ==
  [][(last'.op = "set" /\ last'.ttl # Some(0))
       => \A d \in CacheData :
            Set(last'.key, d, last'.ttl)
            => /\ StoreHas(cache', last'.key)
               /\ StoreGet(cache', last'.key) =
                    [data |-> d, timestamp |-> now,
                     ttl |-> IF last'.ttl # Absent THEN last'.ttl[1]
                             ELSE cacheConfig.defaultTTL]]_vars

\* C21: a run of the cleanup sweep removes exactly the entries whose age exceeds
\* their own ttl; every other entry stays, in place, with its value, ttl and
\* stored-at time, whether or not it was read before.
C21_SweepRemovesExactlyExpired ==
  [][last'.op = "cleanup"
       => /\ \A i \in 1..Len(cache) :
               LET e == cache[i]
               IN  IF now - e.entry.timestamp > e.entry.ttl
                   THEN ~StoreHas(cache', e.key)
                   ELSE StoreHas(cache', e.key) /\ StoreGet(cache', e.key) = e.entry
          /\ StoreKeys(cache') \subseteq StoreKeys(cache)
          /\ Len(cache') = Cardinality(StoreKeys(cache'))]_vars

C21_Witness ==
  /\ last.op = "cleanup"
  /\ last.removed = 1
  /\ Len(cache) = 1
  /\ now - cache[1].entry.timestamp = cache[1].entry.ttl
  /\ now > 0

\* C28: set of a key that is already in the store removes no other key, also
\* when the store holds maxSize entries: the stored keys are the same before
\* and after.
C28_OverwriteKeepsKeys ==
  [][(last'.op = "set" /\ StoreHas(cache, last'.key))
       => StoreKeys(cache') = StoreKeys(cache)]_vars

\* C28 while the store holds fewer than maxSize entries: the same statement
C28_OverwriteKeepsKeysBelowMax ==
  [][(last'.op = "set" /\ StoreHas(cache, last'.key) /\ Len(cache) < cacheConfig.maxSize)
       => StoreKeys(cache') = StoreKeys(cache)]_vars

\* C22: once a payment is CONFIRMED, FAILED or CANCELLED, no later verifyPayment
\* call or poller check changes any field of its record (status, confirmedAt,
\* txSignature, amount) in the payments map or in its cache entry, whatever the
\* oracle answers.
C22_TerminalRecordFrozen ==
  [][last'.op \in VerifyOps
       => \A i \in 1..Len(payments) :
            payments[i].status \in Terminal
            => /\ payments'[i] = payments[i]
               /\ (StoreHas(cache, PaymentKey(payments[i].id))
                     /\ StoreHas(cache', PaymentKey(payments[i].id)))
                  => StoreGet(cache', PaymentKey(payments[i].id)).data
                       = StoreGet(cache, PaymentKey(payments[i].id)).data]_vars

\* the steps of verifyPayment, from a caller or from a poller
VerifySteps == {"verifyPayment", "verifyPayment.query", "checkConfirmation",
                "checkConfirmation.query"}

\* C24: a poller check or verifyPayment call for one payment changes no other
\* payment's record in the payments map and no other payment's record as
\* getPayment returns it; the status it leaves for its own payment is decided
\* by the oracle's answer to its own query alone.
C24_PollersIndependent ==
  [][last'.op \in VerifySteps
       => /\ \A other \in PairIds :
               (other # last'.id /\ MapHas(payments, other))
               => /\ MapHas(payments', other)
                  /\ MapGet(payments', other) = MapGet(payments, other)
                  /\ GetPaymentResult(payments', cache', other, now)
                       = GetPaymentResult(payments, cache, other, now)
          /\ (last'.op \in VerifyOps /\ MapHas(payments, last'.id))
               => MapGet(payments', last'.id).status =
                    IF ~last'.ok THEN MapGet(payments, last'.id).status
                    ELSE IF last'.response.confirmationStatus \in {"confirmed", "finalized"}
                    THEN CONFIRMED
                    ELSE IF last'.response.err THEN FAILED
                    ELSE MapGet(payments, last'.id).status
          /\ (last'.op \notin VerifyOps) => payments' = payments]_vars

C24_Witness ==
  /\ Len(payments) = 2
  /\ payments[1].status = CONFIRMED
  /\ payments[2].status = FAILED
  /\ pollers[1].state = "done"
  /\ pollers[2].state = "done"
  /\ last.op = "checkConfirmation"

\* C25: every processPayment call that returns a payment had a transfer of its
\* own in flight and adds one record under a new id to the payments map, also
\* when the request is the same as an earlier call's; no other step changes the
\* number of records. So the map holds as many records as calls succeeded.
C25_OneRecordPerSuccess ==
  [][IF last'.op = "processPayment" /\ last'.ok
     THEN /\ sending # Absent
          /\ sending' = Absent
          /\ Len(payments') = Len(payments) + 1
          /\ SubSeq(payments', 1, Len(payments)) = payments
          /\ ~MapHas(payments, last'.result[1].id)
          /\ payments'[Len(payments')] = last'.result[1]
     ELSE Len(payments') = Len(payments)]_vars

C25_Witness ==
  /\ Len(payments) = 2
  /\ payments[1].id # payments[2].id
  /\ payments[1].amount = payments[2].amount
  /\ payments[1].txSignature = payments[2].txSignature
  /\ last.op = "processPayment"
  /\ last.ok

\* C26: in every reachable state, a payment in the payments map whose cache
\* entry payment:<id> is present and not expired has the same record in both.
C26_CacheAgreesWithMap ==
  \A i \in 1..Len(payments) :
    LET key == PaymentKey(payments[i].id)
    IN  (StoreHas(cache, key)
           /\ now - StoreGet(cache, key).timestamp <= StoreGet(cache, key).ttl)
        => StoreGet(cache, key).data = payments[i]

C26_Witness ==
  /\ last.op = "getPayment"
  /\ Len(payments) = 1
  /\ payments[1].status = FAILED
  /\ StoreHas(cache, PaymentKey(payments[1].id))
  /\ StoreGet(cache, PaymentKey(payments[1].id)).data = payments[1]
  /\ now > 0
  /\ now - StoreGet(cache, PaymentKey(payments[1].id)).timestamp
       <= StoreGet(cache, PaymentKey(payments[1].id)).ttl
  /\ \E s \in VerifySlots : verifying[s] # Absent

\* the answer to the check just made did not throw, and from the k-th check on
\* it reports "confirmed" or "finalized"
ConfirmedFrom(k) ==
  last.op = "checkConfirmation"
  => /\ last.ok
     /\ pollers[1].checks >= k
          => last.response.confirmationStatus \in {"confirmed", "finalized"}

\* before the k-th check no answer carries an error
NoErrorBefore(k) ==
  last.op = "checkConfirmation"
  => (pollers[1].checks < k => ~last.response.err)

ConfirmedAndStopped ==
  /\ Len(payments) = 1
  /\ payments[1].status = CONFIRMED
  /\ pollers[1].state = "done"

\* C27 as stated: if every query of the poller is answered without throwing and
\* from some check k <= 30 on the answer is "confirmed" or "finalized", a payment
\* that was created becomes CONFIRMED with no caller verifying it, and from then
\* on its poller has no check scheduled.
C27_ConfirmationLive ==
  \A k \in 1..maxAttempts :
    []ConfirmedFrom(k) => ((Len(payments) = 1) ~> []ConfirmedAndStopped)

\* C27 amended: the same, when in addition no answer before the k-th check
\* carries an error.
C27_ConfirmationLiveNoError ==
  \A k \in 1..maxAttempts :
    [](ConfirmedFrom(k) /\ NoErrorBefore(k))
      => ((Len(payments) = 1) ~> []ConfirmedAndStopped)

C27_Witness ==
  /\ ConfirmedAndStopped
  /\ pollers[1].checks = maxAttempts
  /\ last.op = "checkConfirmation"
  /\ payments[1].confirmedAt # Absent

\* the record an agents map holds for an id
StoredIn(map, id) == IF MapHas(map, id) THEN Some(MapGet(map, id)) ELSE Absent

\* C23: deployAgent decides on the record stored when it is called. For an id
\* with no record it fails with AGENT_NOT_FOUND, for a record that is not DRAFT it
\* fails with INVALID_AGENT_STATUS, and in both cases the agents map and the cache
\* stay as they are. For a DRAFT record it goes on, and when it returns, the map
\* and the cache hold the agent with status DEPLOYED and deployedAt stamped; it
\* fails on the way (with AGENT_NOT_FOUND) only if the agent was deleted meanwhile.
C23_DeployOnlyDraft ==
  [][/\ \A id \in AgentCallIds :
          DeployAgent(id) => mgr'.calls[Len(mgr'.calls)].read = StoredIn(mgr.agents, id)
     /\ DeployAgentCheck =>
          LET read == Head(mgr.calls).read
          IN  /\ read = Absent =>
                   /\ last'.op = "deployAgent"
                   /\ last'.error = Some("AGENT_NOT_FOUND")
                   /\ mgr'.agents = mgr.agents /\ cache' = cache
              /\ (read # Absent /\ read[1].status # DRAFT) =>
                   /\ last'.op = "deployAgent"
                   /\ last'.error = Some("INVALID_AGENT_STATUS")
                   /\ mgr'.agents = mgr.agents /\ cache' = cache
              /\ (read # Absent /\ read[1].status = DRAFT) =>
                   last'.op = "deployAgent.updateAgent"
     /\ (DeployAgentUpdate /\ last'.op = "deployAgent") =>
          /\ last'.error = Some("AGENT_NOT_FOUND")
          /\ Head(mgr.calls).id \in mgr.deleted
     /\ DeployAgentStamp =>
          LET id == Head(mgr.calls).id
              stored == StoredIn(mgr'.agents, id)
          IN  /\ last'.error = Absent
              /\ stored # Absent
              /\ stored[1].status = DEPLOYED
              /\ stored[1].deployedAt = Some(now)
              /\ CacheGetResult(cache', AgentKey(id), now) = stored
              /\ last'.result = stored[1]]_vars

C23_Witness ==
  /\ last.op = "deployAgent"
  /\ last.error = Some("INVALID_AGENT_STATUS")
  /\ StoredIn(mgr.agents, last.id) # Absent
  /\ StoredIn(mgr.agents, last.id)[1].status = DEPLOYED
  /\ StoredIn(mgr.agents, last.id)[1].deployedAt # Absent
  /\ CacheGetResult(cache, AgentKey(last.id), now) = StoredIn(mgr.agents, last.id)

\* C29: once deleteAgent(id) has returned true, getAgent(id) returns nothing and
\* listAgents does not include id, whatever calls were in flight during the delete.
C29_DeletedStaysGone ==
  [][/\ (last'.op = "getAgent" /\ last'.id \in mgr.deleted) => last'.result = Absent
     /\ last'.op = "listAgents" =>
          \A i \in 1..Len(last'.result) : last'.result[i].id \notin mgr.deleted]_vars

\* C30: a deployAgent call returns an agent only if no earlier deployAgent call
\* on the same id has returned one.
C30_DeployedAtMostOnce ==
  [][DeployAgentStamp =>
       \A i \in 1..Len(mgr.deployed) : mgr.deployed[i] # Head(mgr.calls).id]_vars

====
